---- MODULE Spec2Model ----
(***************************************************************************)
(* A model of app.py, the topic-to-presentation generator: the text        *)
(* sanitizer (clean_text), the paginator (split_content_into_slides), the  *)
(* deck assembler and exporter (create_presentation) and the Streamlit     *)
(* script (main).  Strings are sequences of one-character strings, so that *)
(* splitting, stripping, replacing and joining are computed, not assumed.  *)
(***************************************************************************)
EXTENDS Integers, Sequences, FiniteSets, TLC

VARIABLES
  x_text, x_once, x_twice, x_pc,      \* the sanitizer applied once and twice
  s_content, s_slides, s_pc,          \* the paginator applied to a content
  pc, topic, generate_button,         \* main: position, widgets
  slide_titles, slide_contents,       \* main: the outline and its contents
  requests, outstanding, error,       \* the calls to the generative model
  prs, files, ui, link,               \* the deck, the file system, the page
  history, runs                       \* the saves made so far, script reruns

xvars == <<x_text, x_once, x_twice, x_pc>>
svars == <<s_content, s_slides, s_pc>>
mvars == <<pc, topic, generate_button, slide_titles, slide_contents, requests,
           outstanding, error, prs, files, ui, link, history, runs>>
vars == <<xvars, svars, mvars>>

---------------------------------------------------------------------------
(* Bounds of the model *)

MaxLen == 8          \* longest sanitizer input, in characters
MaxShortLines == 7   \* longest content built from every mix of line kinds
MaxLines == 14       \* longest content built from one repeated line
LongLen == 70        \* characters of the long line
MaxTitles == 2       \* most titles the model service returns
MaxRuns == 2         \* most reruns of the script

---------------------------------------------------------------------------
(* Strings *)

NL == "\n"
TAB == "\t"
Whitespace == {" ", TAB, NL}

Min(S) == CHOOSE m \in S : \A o \in S : m <= o

RECURSIVE Join(_, _)
Join(parts, sep) ==
  IF parts = <<>> THEN <<>>
  ELSE IF Len(parts) = 1 THEN parts[1]
  ELSE parts[1] \o sep \o Join(Tail(parts), sep)

\* str.split("\n"): the pieces between newlines; "" gives one empty piece
RECURSIVE SplitFrom(_, _)
SplitFrom(s, i) ==
  LET nl == {j \in i..Len(s) : s[j] = NL} IN
  IF nl = {} THEN <<SubSeq(s, i, Len(s))>>
  ELSE <<SubSeq(s, i, Min(nl) - 1)>> \o SplitFrom(s, Min(nl) + 1)

SplitLines(s) == SplitFrom(s, 1)

\* str.strip(): leading and trailing whitespace removed
Strip(s) ==
  LET keep == {i \in 1..Len(s) : s[i] \notin Whitespace} IN
  IF keep = {} THEN <<>>
  ELSE SubSeq(s, Min(keep), CHOOSE m \in keep : \A o \in keep : o <= m)

\* str.replace(' ', '_')
ReplaceSpaces(s) == [i \in 1..Len(s) |-> IF s[i] = " " THEN "_" ELSE s[i]]

\* str.upper() on the characters the topics use
UpperChar(c) ==
  CASE c = "a" -> "A"
    [] c = "b" -> "B"
    [] OTHER -> c

Upper(s) == [i \in 1..Len(s) |-> UpperChar(s[i])]

---------------------------------------------------------------------------
(* clean_text: re.sub(r'\*\*(.*?)\*\*', r'\1', text) *)

\* the two-character literal ** at position i
StarsAt(s, i) == i + 1 <= Len(s) /\ s[i] = "*" /\ s[i + 1] = "*"

\* where a match that opens at i may close: a later **, no newline between
\* ('.' does not match a newline)
Closers(s, i) ==
  {k \in (i + 2)..(Len(s) - 1) :
     StarsAt(s, k) /\ \A j \in (i + 2)..(k - 1) : s[j] # NL}

\* a plausible slip: the greedy quantifier .* in place of .*?
MatchCloseGreedy(s, i) ==
  IF StarsAt(s, i) /\ Closers(s, i) # {}
  THEN CHOOSE m \in Closers(s, i) : \A o \in Closers(s, i) : o <= m
  ELSE 0

\* the position of the closing ** of the match at i, 0 when none matches
\* there: the lazy quantifier takes the nearest one
MatchClose(s, i) ==
  IF StarsAt(s, i) /\ Closers(s, i) # {} THEN Min(Closers(s, i)) ELSE 0

\* re.sub scans left to right and matches do not overlap: the text up to
\* the first position where the pattern matches is kept, the match is
\* replaced by its group, and the scan goes on after the match
RECURSIVE SubFrom(_, _)
SubFrom(s, i) ==
  LET starts == {j \in i..Len(s) : MatchClose(s, j) # 0} IN
  IF starts = {} THEN SubSeq(s, i, Len(s))
  ELSE LET j == Min(starts)
           k == MatchClose(s, j)
       IN SubSeq(s, i, j - 1) \o SubSeq(s, j + 2, k - 1) \o SubFrom(s, k + 2)

clean_text(text) == SubFrom(text, 1)

---------------------------------------------------------------------------
(* split_content_into_slides *)

MAX_SLIDE_CONTENT_LENGTH == 400
MAX_BULLETS_PER_SLIDE == 6

\* a plausible slip: <= in place of <
RoomLeftOffByOne(current_slide) == Len(current_slide) <= MAX_BULLETS_PER_SLIDE

RoomLeft(current_slide) == Len(current_slide) < MAX_BULLETS_PER_SLIDE

\* a plausible slip: the line that opens a new chunk is lost
NewChunkDropsLine(para) == <<>>

NewChunk(para) == <<para>>

\* one iteration of the loop over paragraphs
SplitStep(acc, para) ==
  LET cleaned == clean_text(para) IN
  IF RoomLeft(acc.current_slide)
  THEN [slides |-> acc.slides,
        current_slide |-> Append(acc.current_slide, cleaned)]
  ELSE [slides |-> Append(acc.slides, Join(acc.current_slide, <<NL>>)),
        current_slide |-> NewChunk(cleaned)]

RECURSIVE SplitLoop(_, _)
SplitLoop(acc, paragraphs) ==
  IF paragraphs = <<>> THEN acc
  ELSE SplitLoop(SplitStep(acc, Head(paragraphs)), Tail(paragraphs))

split_content_into_slides(content) ==
  LET acc == SplitLoop([slides |-> <<>>, current_slide |-> <<>>],
                       SplitLines(content)) IN
  IF acc.current_slide # <<>>
  THEN Append(acc.slides, Join(acc.current_slide, <<NL>>))
  ELSE acc.slides

---------------------------------------------------------------------------
(* The deck: python-pptx objects as records *)

TITLE_FONT_SIZE == 30
SLIDE_FONT_SIZE == 16
Unset == 0           \* a length python-pptx leaves at None (inherited)

\* a paragraph as python-pptx creates it, nothing set
Para(txt) ==
  [text |-> txt, size |-> Unset, bold |-> FALSE, space_after |-> Unset,
   level |-> 0, alignment |-> "inherit"]

Contd == <<" ", "(", "c", "o", "n", "t", "d", ".", ")">>

\* prs.slides.add_slide(title_slide_layout); title text upper-cased, bold.
\* The subtitle placeholder keeps its one empty paragraph.
TitleSlide(t) ==
  [layout |-> 0,
   title |-> <<[Para(Upper(t)) EXCEPT !.bold = TRUE]>>,
   body |-> <<Para(<<>>)>>]

\* a plausible slip: the heading never gets its suffix
SlideHeadingNoSuffix(slide_title, first_slide) == slide_title

SlideHeading(slide_title, first_slide) ==
  IF first_slide THEN slide_title ELSE slide_title \o Contd

\* the loop over content.split("\n"): one paragraph per non-blank line
RECURSIVE BulletParas(_)
BulletParas(bullets) ==
  IF bullets = <<>> THEN <<>>
  ELSE (IF Strip(Head(bullets)) # <<>>
        THEN <<[Para(Strip(Head(bullets))) EXCEPT
                  !.space_after = 8, !.level = 0, !.alignment = "LEFT"]>>
        ELSE <<>>) \o BulletParas(Tail(bullets))

\* slide.shapes.title.text_frame.paragraphs[0].font.size = TITLE_FONT_SIZE
SizeTitle(slide) == [slide EXCEPT !.title[1].size = TITLE_FONT_SIZE]

\* for shape in slide.shapes: for paragraph in shape.text_frame.paragraphs:
\* paragraph.font.size = SLIDE_FONT_SIZE; the title is one of the shapes
SizeAllParagraphs(slide) ==
  [slide EXCEPT
     !.title = [i \in 1..Len(slide.title) |->
                  [slide.title[i] EXCEPT !.size = SLIDE_FONT_SIZE]],
     !.body = [i \in 1..Len(slide.body) |->
                 [slide.body[i] EXCEPT !.size = SLIDE_FONT_SIZE]]]

\* one pass of the loop over content_slides; text_frame.clear() leaves one
\* empty paragraph in the body placeholder
ContentSlide(slide_title, content, first_slide) ==
  SizeAllParagraphs(SizeTitle(
    [layout |-> 1,
     title |-> <<Para(SlideHeading(slide_title, first_slide))>>,
     body |-> <<Para(<<>>)>> \o BulletParas(SplitLines(content))]))

RECURSIVE SectionSlides(_, _, _)
SectionSlides(slide_title, content_slides, first_slide) ==
  IF content_slides = <<>> THEN <<>>
  ELSE <<ContentSlide(slide_title, Head(content_slides), first_slide)>>
       \o SectionSlides(slide_title, Tail(content_slides), FALSE)

\* the loop over zip(slide_titles, slide_contents), from pair k on;
\* first_slide is set to True for each pair
RECURSIVE ZipSlides(_, _, _)
ZipSlides(titles, contents, k) ==
  IF k > Len(titles) \/ k > Len(contents) THEN <<>>
  ELSE SectionSlides(titles[k], split_content_into_slides(contents[k]), TRUE)
       \o ZipSlides(titles, contents, k + 1)

\* a plausible slip: only the first chunk of a content is given a slide
DeckFirstChunksOnly(t, titles, contents) ==
  <<TitleSlide(t)>> \o
  ZipSlides(titles,
            [i \in 1..Len(contents) |->
               LET c == split_content_into_slides(contents[i]) IN
               IF c = <<>> THEN <<>> ELSE c[1]],
            1)

\* the slides create_presentation builds
Deck(t, titles, contents) == <<TitleSlide(t)>> \o ZipSlides(titles, contents, 1)

OutputDir == <<"g", "e", "n", "e", "r", "a", "t", "e", "d", "_", "p", "p", "t">>
Suffix ==
  <<"_", "p", "r", "e", "s", "e", "n", "t", "a", "t", "i", "o", "n",
    ".", "p", "p", "t", "x">>

\* os.path.join(a, b): b alone when b is absolute
os_path_join(a, b) ==
  IF b # <<>> /\ b[1] = "/" THEN b ELSE a \o <<"/">> \o b

ppt_filename(t) == os_path_join(OutputDir, ReplaceSpaces(t) \o Suffix)

\* a plausible slip: a file that exists is left as it is
SaveKeepsExisting(fs, path, deck) ==
  IF path \in DOMAIN fs THEN fs
  ELSE [p \in DOMAIN fs \cup {path} |-> IF p = path THEN deck ELSE fs[p]]

\* prs.save(ppt_filename): the file at the path is created or replaced
Save(fs, path, deck) ==
  [p \in DOMAIN fs \cup {path} |-> IF p = path THEN deck ELSE fs[p]]

\* os.path.basename
Basename(path) ==
  LET sl == {i \in 1..Len(path) : path[i] = "/"} IN
  IF sl = {} THEN path
  ELSE SubSeq(path, (CHOOSE m \in sl : \A o \in sl : o <= m) + 1, Len(path))

NoLink == [download |-> <<>>, b64_ppt |-> <<>>]

\* the anchor: the file's bytes, base64-encoded, and the file's name
get_ppt_download_link(fs, path) ==
  [download |-> Basename(path), b64_ppt |-> <<"base64", fs[path]>>]

---------------------------------------------------------------------------
(* The generative model: what it may answer *)

Letters == <<"B", "L", "T", "G">>
TitleName(k) == <<Letters[((k - 1) % Len(Letters)) + 1]>>

\* an answer with n subtopics, padded with blanks and blank lines
RawOutline(n) ==
  <<NL>> \o Join([k \in 1..n |-> <<" ">> \o TitleName(k)], <<NL, NL>>) \o <<NL>>

TitleResponses == {RawOutline(n) : n \in 0..MaxTitles}

\* seven lines: a bold marker, a blank line, a padded line, four plain ones
SevenLines ==
  <<"*", "*", "b", "*", "*", "a", NL, NL, " ", "a", " ", NL,
    "b", NL, "b", NL, "b", NL, "b", NL>>

ContentResponses == {<<" ">>, SevenLines}

\* generate_slide_titles, from the model's answer on
RECURSIVE NonBlankStripped(_)
NonBlankStripped(lines) ==
  IF lines = <<>> THEN <<>>
  ELSE (IF Strip(Head(lines)) # <<>> THEN <<Strip(Head(lines))>> ELSE <<>>)
       \o NonBlankStripped(Tail(lines))

generate_slide_titles(response_text) ==
  NonBlankStripped(SplitLines(Strip(response_text)))

\* generate_slide_content, from the model's answer on
generate_slide_content(response_text) == Strip(response_text)

Topics == {<<>>, <<"a", " ", "b">>, <<"a", "_", "b">>}

---------------------------------------------------------------------------
(* The sanitizer on its own: every short string over *, a and newline *)

Strings(alphabet, n) == UNION {[1..k -> alphabet] : k \in 0..n}

XOff ==
  /\ x_text = <<>> /\ x_once = <<>> /\ x_twice = <<>> /\ x_pc = "off"

SOff == s_content = <<>> /\ s_slides = <<>> /\ s_pc = "off"

MOff ==
  /\ pc = "off" /\ topic = <<>> /\ generate_button = FALSE
  /\ slide_titles = <<>> /\ slide_contents = <<>>
  /\ requests = <<>> /\ outstanding = 0 /\ error = FALSE
  /\ prs = <<>> /\ files = <<>> /\ ui = <<>> /\ link = NoLink
  /\ history = <<>> /\ runs = 0

InitClean ==
  /\ x_text \in Strings({"*", "a", NL}, MaxLen)
  /\ x_once = <<>> /\ x_twice = <<>> /\ x_pc = "input"
  /\ SOff /\ MOff

CleanOnce ==
  /\ x_pc = "input"
  /\ x_once' = clean_text(x_text)
  /\ x_pc' = "once"
  /\ UNCHANGED <<x_text, x_twice, svars, mvars>>

CleanTwice ==
  /\ x_pc = "once"
  /\ x_twice' = clean_text(x_once)
  /\ x_pc' = "twice"
  /\ UNCHANGED <<x_text, x_once, svars, mvars>>

NextClean == CleanOnce \/ CleanTwice

SpecClean == InitClean /\ [][NextClean]_vars

---------------------------------------------------------------------------
(* The paginator on its own *)

BlankLine == <<>>
BoldLine == <<"*", "*", "b", "*", "*", ":", " ", "c">>
PlainLine == <<"a">>
LongLine == [i \in 1..LongLen |-> "a"]

\* every mix of the short line kinds, and longer runs of one line
Contents ==
  {Join(ls, <<NL>>) :
     ls \in Strings({BlankLine, BoldLine, PlainLine}, MaxShortLines)}
  \cup
  {Join([k \in 1..n |-> l], <<NL>>) :
     n \in 1..MaxLines, l \in {BlankLine, BoldLine, LongLine}}

InitSplit ==
  /\ s_content \in Contents
  /\ s_slides = <<>> /\ s_pc = "input"
  /\ XOff /\ MOff

Paginate ==
  /\ s_pc = "input"
  /\ s_slides' = split_content_into_slides(s_content)
  /\ s_pc' = "split"
  /\ UNCHANGED <<s_content, xvars, mvars>>

NextSplit == Paginate

SpecSplit == InitSplit /\ [][NextSplit]_vars

---------------------------------------------------------------------------
(* main: one run of the Streamlit script per interaction *)

Page == <<"title", "text_input", "button">>

Init ==
  /\ pc = "idle" /\ topic = <<>> /\ generate_button = FALSE
  /\ slide_titles = <<>> /\ slide_contents = <<>>
  /\ requests = <<>> /\ outstanding = 0 /\ error = FALSE
  /\ prs = <<>> /\ files = <<>> /\ ui = Page /\ link = NoLink
  /\ history = <<>> /\ runs = 0
  /\ XOff /\ SOff

\* if generate_button and topic
Generates(b, t) == b /\ t # <<>>

\* the user changes the text or presses the button: the script runs again
\* from its top, and generates only for a pressed button and a topic
Interact(t, b) ==
  /\ pc \in {"idle", "done", "failed"}
  /\ runs < MaxRuns
  /\ runs' = runs + 1
  /\ topic' = t
  /\ generate_button' = b
  /\ slide_titles' = <<>> /\ slide_contents' = <<>>
  /\ requests' = <<>> /\ outstanding' = 0 /\ error' = FALSE
  /\ prs' = <<>> /\ link' = NoLink
  /\ IF Generates(b, t)
     THEN pc' = "generate_slide_titles" /\ ui' = Page \o <<"info">>
     ELSE pc' = "idle" /\ ui' = Page
  /\ UNCHANGED <<files, history, xvars, svars>>

\* model.generate_content(prompt) is called with the topic's prompt
TitlesRequest ==
  /\ pc = "generate_slide_titles"
  /\ requests' = Append(requests, [fn |-> "generate_slide_titles", about |-> topic])
  /\ outstanding' = outstanding + 1
  /\ pc' = "titles_wait"
  /\ UNCHANGED <<topic, generate_button, slide_titles, slide_contents, error,
                 prs, files, ui, link, history, runs, xvars, svars>>

\* a plausible slip: the call is made again after an error
AfterModelErrorRetry(at) == at

\* an exception of the model call is caught nowhere: the run ends there
AfterModelError(at) == "failed"

\* a plausible slip: the titles are asked for last to first
NextTitleReversed(titles, contents) == titles[Len(titles) - Len(contents)]

\* the list comprehension over slide_titles: the next title to ask about
NextTitle(titles, contents) == titles[Len(contents) + 1]

AfterContents(titles, contents) ==
  IF Len(contents) < Len(titles) THEN "generate_slide_content"
  ELSE "create_presentation"

TitlesResponse(response_text) ==
  /\ pc = "titles_wait"
  /\ outstanding' = outstanding - 1
  /\ slide_titles' = generate_slide_titles(response_text)
  /\ pc' = AfterContents(slide_titles', slide_contents)
  /\ UNCHANGED <<topic, generate_button, slide_contents, requests, error,
                 prs, files, ui, link, history, runs, xvars, svars>>

TitlesError ==
  /\ pc = "titles_wait"
  /\ outstanding' = outstanding - 1
  /\ error' = TRUE
  /\ pc' = AfterModelError("generate_slide_titles")
  /\ UNCHANGED <<topic, generate_button, slide_titles, slide_contents,
                 requests, prs, files, ui, link, history, runs, xvars, svars>>

ContentRequest ==
  /\ pc = "generate_slide_content"
  /\ requests' = Append(requests,
                        [fn |-> "generate_slide_content",
                         about |-> NextTitle(slide_titles, slide_contents)])
  /\ outstanding' = outstanding + 1
  /\ pc' = "content_wait"
  /\ UNCHANGED <<topic, generate_button, slide_titles, slide_contents, error,
                 prs, files, ui, link, history, runs, xvars, svars>>

ContentResponse(response_text) ==
  /\ pc = "content_wait"
  /\ outstanding' = outstanding - 1
  /\ slide_contents' = Append(slide_contents, generate_slide_content(response_text))
  /\ pc' = AfterContents(slide_titles, slide_contents')
  /\ UNCHANGED <<topic, generate_button, slide_titles, requests, error,
                 prs, files, ui, link, history, runs, xvars, svars>>

ContentError ==
  /\ pc = "content_wait"
  /\ outstanding' = outstanding - 1
  /\ error' = TRUE
  /\ pc' = AfterModelError("generate_slide_content")
  /\ UNCHANGED <<topic, generate_button, slide_titles, slide_contents,
                 requests, prs, files, ui, link, history, runs, xvars, svars>>

\* create_presentation: the deck is built and saved; history records the save
CreatePresentation ==
  /\ pc = "create_presentation"
  /\ prs' = Deck(topic, slide_titles, slide_contents)
  /\ files' = Save(files, ppt_filename(topic), prs')
  /\ history' = Append(history, [run |-> runs, topic |-> topic, deck |-> prs'])
  /\ pc' = "report"
  /\ UNCHANGED <<topic, generate_button, slide_titles, slide_contents,
                 requests, outstanding, error, ui, link, runs, xvars, svars>>

\* st.success(...); st.markdown(get_ppt_download_link(ppt_filename))
Report ==
  /\ pc = "report"
  /\ ui' = ui \o <<"success", "markdown">>
  /\ link' = get_ppt_download_link(files, ppt_filename(topic))
  /\ pc' = "done"
  /\ UNCHANGED <<topic, generate_button, slide_titles, slide_contents,
                 requests, outstanding, error, prs, files, history, runs,
                 xvars, svars>>

Next ==
  \/ \E t \in Topics, b \in BOOLEAN : Interact(t, b)
  \/ TitlesRequest
  \/ \E r \in TitleResponses : TitlesResponse(r)
  \/ TitlesError
  \/ ContentRequest
  \/ \E r \in ContentResponses : ContentResponse(r)
  \/ ContentError
  \/ CreatePresentation
  \/ Report

Spec == Init /\ [][Next]_vars

---------------------------------------------------------------------------
(* Properties of the sanitizer and the paginator *)

\* C7: sanitizing is idempotent: for every input x, with unbalanced,
\* adjacent or odd runs of '*' and with several lines,
\* clean_text(clean_text(x)) = clean_text(x).
C7_SanitizerIdempotent == x_pc = "twice" => x_twice = x_once

\* a several-line input that the sanitizer changed and that keeps a '*'
C7_Witness ==
  /\ x_pc = "twice"
  /\ x_once # x_text
  /\ \E i \in 1..Len(x_text) : x_text[i] = NL
  /\ \E i \in 1..Len(x_once) : x_once[i] = "*"

\* the input split on newlines, each line sanitized
SanitizedLines(content) ==
  [i \in 1..Len(SplitLines(content)) |-> clean_text(SplitLines(content)[i])]

LineCount(chunk) == Len(SplitLines(chunk))

\* C1: lossless partition: the chunks, joined with a newline in order, are
\* exactly the sanitized lines of the input, none dropped, duplicated or
\* reordered.
C1_LosslessPartition ==
  s_pc = "split" =>
    /\ SplitLines(Join(s_slides, <<NL>>)) = SanitizedLines(s_content)
    /\ Join(s_slides, <<NL>>) = Join(SanitizedLines(s_content), <<NL>>)

\* several chunks, a line the sanitizer changed, a blank line
C1_Witness ==
  /\ s_pc = "split"
  /\ Len(s_slides) >= 2
  /\ SanitizedLines(s_content) # SplitLines(s_content)
  /\ \E i \in 1..Len(SplitLines(s_content)) : SplitLines(s_content)[i] = <<>>

---------------------------------------------------------------------------
(* Properties of the deck and of a run *)

\* create_presentation has returned in the current run
Saved == pc \in {"report", "done"}

\* the chunks of every section of the current run
Chunks ==
  [i \in 1..Len(slide_titles) |-> split_content_into_slides(slide_contents[i])]

\* the chunks of the first i sections, counted
RECURSIVE SumChunks(_, _)
SumChunks(ch, i) == IF i = 0 THEN 0 ELSE SumChunks(ch, i - 1) + Len(ch[i])

\* position in the deck of chunk j of section i: after the Title Slide and
\* the earlier sections' slides
Position(ch, i, j) == 1 + SumChunks(ch, i - 1) + j

Heading(slide) == slide.title[1].text

\* C3: continuation naming: the slide of a section's first chunk is headed
\* by the section title verbatim, the slide of every later chunk by
\* "<title> (contd.)", and each section starts again with the plain title.
C3_ContinuationNaming ==
  Saved =>
    \A ch \in {Chunks} :
    \A i \in 1..Len(slide_titles) : \A j \in 1..Len(ch[i]) :
      /\ Position(ch, i, j) <= Len(prs)
      /\ Heading(prs[Position(ch, i, j)]) =
           IF j = 1 THEN slide_titles[i]
           ELSE slide_titles[i] \o <<" ", "(", "c", "o", "n", "t", "d", ".", ")">>

\* two sections of two chunks each: the second section follows a
\* continuation slide and starts with its plain title
C3_Witness ==
  /\ Saved
  /\ Len(slide_titles) = 2
  /\ Len(Chunks[1]) = 2 /\ Len(Chunks[2]) = 2
  /\ Len(prs) = 5
  /\ Heading(prs[3]) # slide_titles[1]
  /\ Heading(prs[4]) = slide_titles[2]

IsPrefix(a, b) == Len(a) <= Len(b) /\ SubSeq(b, 1, Len(a)) = a

\* the texts of a content slide's bullets (the placeholder's first, empty
\* paragraph aside)
BulletTexts(slide) == [k \in 1..(Len(slide.body) - 1) |-> slide.body[k + 1].text]

\* C4: deck structure: one Title Slide, first, then for each title in
\* outline order one Content Slide per chunk in chunk order; the slide
\* count is 1 plus the sections' chunk counts (two titles of 7 lines each
\* give 5 slides, no title gives the Title Slide alone).
C4_DeckStructure ==
  Saved =>
    \A ch \in {Chunks} :
    /\ Len(prs) = 1 + SumChunks(ch, Len(slide_titles))
    /\ prs[1].layout = 0
    /\ Heading(prs[1]) = Upper(topic)
    /\ \A k \in 2..Len(prs) : prs[k].layout = 1
    /\ \A i \in 1..Len(slide_titles) : \A j \in 1..Len(ch[i]) :
         /\ IsPrefix(slide_titles[i], Heading(prs[Position(ch, i, j)]))
         /\ BulletTexts(prs[Position(ch, i, j)]) =
              NonBlankStripped(SplitLines(ch[i][j]))
    /\ slide_titles = <<>> => Len(prs) = 1
    /\ ( /\ Len(slide_titles) = 2
         /\ \A i \in 1..2 : Len(SplitLines(slide_contents[i])) = 7 )
       => Len(prs) = 5

\* two titles with seven lines each: five slides
C4_Witness ==
  /\ Saved
  /\ Len(slide_titles) = 2
  /\ \A i \in 1..2 : Len(SplitLines(slide_contents[i])) = 7
  /\ Len(prs) = 5

\* C5: fixed font sizes: in the finished deck the title of every slide, the
\* Title Slide included, has size 30pt and every body paragraph of a
\* Content Slide 16pt.
C5_FixedFontSizes ==
  Saved =>
    \A k \in 1..Len(prs) :
      /\ \A p \in 1..Len(prs[k].title) : prs[k].title[p].size = 30
      /\ prs[k].layout = 1 =>
           \A p \in 1..Len(prs[k].body) : prs[k].body[p].size = 16

\* C6: empty content degrades to no slides: a section whose content is the
\* empty string paginates into no chunk and gets no Content Slide.
C6_EmptyContentNoSlides ==
  Saved =>
    \A i \in 1..Len(slide_titles) :
      slide_contents[i] = <<>> =>
        /\ split_content_into_slides(slide_contents[i]) = <<>>
        /\ \A k \in 2..Len(prs) : Heading(prs[k]) # slide_titles[i]

---------------------------------------------------------------------------
(* The output file *)

RanTopics == {history[i].topic : i \in 1..Len(history)}

LastIndex(S) == CHOOSE m \in S : \A o \in S : o <= m

\* the deck of the most recent completed run for topic t
LastDeckFor(t) ==
  history[LastIndex({i \in 1..Len(history) : history[i].topic = t})].deck

\* the topic with whitespace replaced by underscores, then the suffix,
\* under generated_ppt
PathWhitespaceReplaced(t) ==
  OutputDir \o <<"/">>
  \o [i \in 1..Len(t) |-> IF t[i] \in Whitespace THEN "_" ELSE t[i]]
  \o Suffix

\* C8 as stated: the path is the topic with whitespace replaced by
\* underscores plus the suffix under generated_ppt, and the file at a
\* topic's path holds the deck of the most recent completed run for that
\* topic, with no other file.
C8_FilePerTopic ==
  /\ DOMAIN files = {PathWhitespaceReplaced(t) : t \in RanTopics}
  /\ \A t \in RanTopics : files[PathWhitespaceReplaced(t)] = LastDeckFor(t)

\* the topic with each space replaced by an underscore, then the suffix,
\* joined to generated_ppt
PathSpacesReplaced(t) ==
  IF t # <<>> /\ t[1] = "/"
  THEN [i \in 1..Len(t) |-> IF t[i] = " " THEN "_" ELSE t[i]] \o Suffix
  ELSE OutputDir \o <<"/">>
       \o [i \in 1..Len(t) |-> IF t[i] = " " THEN "_" ELSE t[i]]
       \o Suffix

\* C8 amended: the path is a function of the topic alone (each space
\* replaced by an underscore, then the suffix, joined to generated_ppt);
\* the file at a path holds the deck of the most recent completed run
\* among the topics that share the path, and no other file exists.
C8_FilePerPath ==
  /\ DOMAIN files = {PathSpacesReplaced(t) : t \in RanTopics}
  /\ \A p \in DOMAIN files :
       files[p] =
         history[LastIndex({i \in 1..Len(history) :
                              PathSpacesReplaced(history[i].topic) = p})].deck
  /\ Saved => files[PathSpacesReplaced(topic)] = prs
  /\ (Saved /\ topic = <<"a", " ", "b">>) =>
       <<"g", "e", "n", "e", "r", "a", "t", "e", "d", "_", "p", "p", "t", "/",
         "a", "_", "b", "_", "p", "r", "e", "s", "e", "n", "t", "a", "t", "i",
         "o", "n", ".", "p", "p", "t", "x">> \in DOMAIN files

\* two topics that share a path have both completed a run, with different
\* decks: the file holds the later one
C8_Witness ==
  /\ Len(history) = 2
  /\ history[1].topic # history[2].topic
  /\ PathSpacesReplaced(history[1].topic) = PathSpacesReplaced(history[2].topic)
  /\ history[1].deck # history[2].deck
  /\ files[PathSpacesReplaced(history[1].topic)] = history[2].deck

---------------------------------------------------------------------------
(* Failure and order of the model calls *)

SavesOfRun == Cardinality({i \in 1..Len(history) : history[i].run = runs})

\* C9: no partial result on model failure: once a model request of a run
\* has failed, the run issues no further request (the failed one is not
\* retried), writes no file and shows neither the success message nor a
\* download link.
C9_NoPartialResult ==
  /\ [](error =>
          /\ outstanding = 0
          /\ SavesOfRun = 0
          /\ \A k \in 1..Len(ui) : ui[k] \notin {"success", "markdown"}
          /\ link = NoLink)
  /\ [][(error /\ error') => (requests' = requests /\ files' = files)]_vars

\* a content request failed while an earlier run's file exists
C9_Witness ==
  /\ error
  /\ Len(requests) >= 2
  /\ DOMAIN files # {}

InRun ==
  pc \in {"generate_slide_titles", "titles_wait", "generate_slide_content",
          "content_wait", "create_presentation", "report", "done", "failed"}

====
